---- MODULE Spec2Model ----
(***************************************************************************)
(* Plasma Cash runtime module (runtime/src/plasma_cash.rs): the signed     *)
(* Transaction, the pairwise classifier Transaction::compare, and the      *)
(* dispatchable calls transfer / deposit / withdraw over the storage map   *)
(* Tokens: TokenId => Option<Transaction>.                                 *)
(*                                                                         *)
(* Cryptography is idealised: blake2_256 over the SCALE encoding is        *)
(* injective (the hash of an unsigned transaction is the tuple of its      *)
(* three fields), and a signature verifies exactly for the key that made   *)
(* it and the message it was made over.                                    *)
(***************************************************************************)
EXTENDS Integers, Sequences, FiniteSets, TLC

VARIABLES Tokens, last, happy, self, other, rel, signing, pair, genesis

vars == <<Tokens, last, happy, self, other, rel, signing, pair, genesis>>

----------------------------------------------------------------------------
(* Bounds of the model *)

NumAccounts == 3
NumTokens == 2
MaxBlk == 1
MaxSeed == 1
MaxNonce == 1
MaxGenesis == 2

----------------------------------------------------------------------------
(* Types *)

AccountId == 1..NumAccounts
TokenId == 1..NumTokens
BlkNum == 0..MaxBlk

\* Option<T>: None is the empty sequence, Some(x) the one-element sequence.
None == <<>>
Some(x) == <<x>>

UnsignedTransaction == [receiver : AccountId, token_id : TokenId, prev_blk_num : BlkNum]

\* UnsignedTransaction::new / Transaction::new
new(receiver, token_id, prev_blk_num) ==
    [receiver |-> receiver, token_id |-> token_id, prev_blk_num |-> prev_blk_num]

\* UnsignedTransaction::hash: blake2_256 of the encoding of the three fields.
hash(u) == <<u.receiver, u.token_id, u.prev_blk_num>>

\* A signature made with the key of `signer` over the message `msg`. Signing
\* is randomised: the same key and message give signatures that differ (in
\* `nonce`) and all verify.
sign_with(signer, msg, nonce) == [signer |-> signer, msg |-> msg, nonce |-> nonce]

\* Pair::sign: the signatures a call with this key and message can return.
\* Two calls need not return the same one.
sign(signer, msg) == { sign_with(signer, msg, nonce) : nonce \in 0..MaxNonce }

\* Verify::verify(signature, msg, signer)
verify(signature, msg, signer) == signature.signer = signer /\ signature.msg = msg

\* UnsignedTransaction::add_signature: Some(Transaction) on Ok, None on Err.
\* (Re-encoding a signature that verified as AnySignature does not fail, so
\* the "Transaction encoding error!" branch is not taken.)
add_signature_unchecked(u, sender, signature) ==
    Some([receiver |-> u.receiver,
          token_id |-> u.token_id,
          prev_blk_num |-> u.prev_blk_num,
          sender |-> sender,
          signature |-> signature])

add_signature(u, sender, signature) ==
    IF verify(signature, hash(u), sender)
    THEN Some([receiver |-> u.receiver,
               token_id |-> u.token_id,
               prev_blk_num |-> u.prev_blk_num,
               sender |-> sender,
               signature |-> signature])
    ELSE None

\* Transaction::leaf_hash
leaf_hash(txn) == hash(new(txn.receiver, txn.token_id, txn.prev_blk_num))

valid_any_sender(txn) == verify(txn.signature, leaf_hash(txn), txn.signature.signer)

\* Transaction::valid. (AccountId is sr25519::Public, as in the tests and the
\* runtime, so decoding the sender as a Public does not fail.)
valid(txn) == verify(txn.signature, leaf_hash(txn), txn.sender)

\* tests::create_txn: built and signed by `from`; the transactions a call
\* can return, one for each signature sign can return.
create_txn(from, to, token_id, blk_num) ==
    { add_signature(new(to, token_id, blk_num), from, signature)[1] :
         signature \in sign(from, hash(new(to, token_id, blk_num))) }

\* Transactions as they can arrive decoded from an extrinsic: the fields of
\* an unsigned transaction, a claimed sender, and any signature made by any
\* account over those fields (valid exactly when that account is the sender).
TxnInputs ==
    UNION { { [receiver |-> u.receiver,
               token_id |-> u.token_id,
               prev_blk_num |-> u.prev_blk_num,
               sender |-> s,
               signature |-> signature] : signature \in sign(k, hash(u)) } :
            u \in UnsignedTransaction, s \in AccountId, k \in AccountId }

ValidTxns == { txn \in TxnInputs : valid(txn) }

\* Transactions of a genesis configuration: made by create_txn with
\* prev_blk_num 0, as in the tests.
GenesisTxns == { txn \in ValidTxns : txn.prev_blk_num = 0 }

----------------------------------------------------------------------------
(* Transaction::compare *)

TxnCmp == {"Same", "Parent", "Child", "EarlierSibling", "LaterSibling",
           "DoubleSpend", "Unrelated"}

compare_child_first(slf, oth) ==
    IF slf.token_id = oth.token_id
    THEN IF slf.sender = oth.receiver THEN "Child"
         ELSE IF slf.receiver = oth.sender THEN "Parent"
         ELSE IF slf.sender = oth.sender
              THEN IF slf.prev_blk_num < oth.prev_blk_num THEN "EarlierSibling"
                   ELSE IF slf.prev_blk_num > oth.prev_blk_num THEN "LaterSibling"
                   ELSE IF slf.receiver # oth.receiver THEN "DoubleSpend"
                   ELSE "Same"
              ELSE "Unrelated"
    ELSE "Unrelated"

compare_no_cycle(slf, oth) ==
    IF slf.token_id = oth.token_id
    THEN IF slf.receiver = oth.sender /\ slf.sender # oth.receiver THEN "Parent"
         ELSE IF slf.sender = oth.receiver THEN "Child"
         ELSE IF slf.sender = oth.sender
              THEN IF slf.prev_blk_num < oth.prev_blk_num THEN "EarlierSibling"
                   ELSE IF slf.prev_blk_num > oth.prev_blk_num THEN "LaterSibling"
                   ELSE IF slf.receiver # oth.receiver THEN "DoubleSpend"
                   ELSE "Same"
              ELSE "Unrelated"
    ELSE "Unrelated"

compare_sibling_le(slf, oth) ==
    IF slf.token_id = oth.token_id
    THEN IF slf.receiver = oth.sender THEN "Parent"
         ELSE IF slf.sender = oth.receiver THEN "Child"
         ELSE IF slf.sender = oth.sender
              THEN IF slf.prev_blk_num <= oth.prev_blk_num THEN "EarlierSibling"
                   ELSE IF slf.prev_blk_num > oth.prev_blk_num THEN "LaterSibling"
                   ELSE IF slf.receiver # oth.receiver THEN "DoubleSpend"
                   ELSE "Same"
              ELSE "Unrelated"
    ELSE "Unrelated"

compare(slf, oth) ==
    IF slf.token_id = oth.token_id
    THEN IF slf.receiver = oth.sender THEN "Parent"
         ELSE IF slf.sender = oth.receiver THEN "Child"
         ELSE IF slf.sender = oth.sender
              THEN IF slf.prev_blk_num < oth.prev_blk_num THEN "EarlierSibling"
                   ELSE IF slf.prev_blk_num > oth.prev_blk_num THEN "LaterSibling"
                   ELSE IF slf.receiver # oth.receiver THEN "DoubleSpend"
                   ELSE "Same"
              ELSE "Unrelated"
    ELSE "Unrelated"

----------------------------------------------------------------------------
(* Origins and dispatch results *)

Signed(who) == <<"Signed", who>>
Origin == { Signed(a) : a \in AccountId } \cup { <<"Root", 0>>, <<"None", 0>> }

Ok == "Ok"
BadOrigin == "bad origin: expected to be a signed origin"
SignerMismatch == "Only Transaction signer can submit!"
InvalidSignature == "Transaction is not valid!"
TokenDoesNotExist == "No deposit recorded yet!"
TokenAlreadyExists == "Token already exists!"
NotCurrentOwner == "Current owner did not sign transaction!"
WithdrawNotOwner == "Only current owner can withdraw!"

\* system::ensure_signed(origin)
ensure_signed(origin) == IF origin[1] = "Signed" THEN Some(origin[2]) ELSE None

\* <Tokens<T>>::exists / get / insert / remove on a value of the map
exists(tokens, token_id) == tokens[token_id] # None
get(tokens, token_id) == tokens[token_id]
insert(tokens, token_id, txn) == [tokens EXCEPT ![token_id] = Some(txn)]
remove_all(tokens, token_id) == [t \in DOMAIN tokens |-> None]
remove(tokens, token_id) == [tokens EXCEPT ![token_id] = None]

\* What a dispatch returns: its Result, the map after it, the event deposited.
Err(msg, tokens) == [result |-> msg, tokens |-> tokens, event |-> None]
Done(tokens, event) == [result |-> Ok, tokens |-> tokens, event |-> Some(event)]

----------------------------------------------------------------------------
(* The dispatchable calls of decl_module!, as functions of the map: each      *)
(* returns its Result, the map after the call and the event it deposits.   *)
(* The checks are made in the order of the code, and nothing is written    *)
(* before the last of them.                                                *)

transfer_any_relation(tokens, origin, txn) ==
    LET who == ensure_signed(origin) IN
    IF who = None THEN Err(BadOrigin, tokens)
    ELSE IF who[1] # txn.sender THEN Err(SignerMismatch, tokens)
    ELSE IF ~valid(txn) THEN Err(InvalidSignature, tokens)
    ELSE IF ~exists(tokens, txn.token_id) THEN Err(TokenDoesNotExist, tokens)
    ELSE Done(insert(tokens, txn.token_id, txn),
              <<"Transfer", txn.token_id, txn.sender, txn.receiver>>)

transfer_exists_first(tokens, origin, txn) ==
    LET who == ensure_signed(origin) IN
    IF who = None THEN Err(BadOrigin, tokens)
    ELSE IF ~exists(tokens, txn.token_id) THEN Err(TokenDoesNotExist, tokens)
    ELSE IF who[1] # txn.sender THEN Err(SignerMismatch, tokens)
    ELSE IF ~valid(txn) THEN Err(InvalidSignature, tokens)
    ELSE IF compare(txn, get(tokens, txn.token_id)[1]) # "Child"
         THEN Err(NotCurrentOwner, tokens)
    ELSE Done(insert(tokens, txn.token_id, txn),
              <<"Transfer", txn.token_id, txn.sender, txn.receiver>>)

transfer_accepts_parent(tokens, origin, txn) ==
    LET who == ensure_signed(origin) IN
    IF who = None THEN Err(BadOrigin, tokens)
    ELSE IF who[1] # txn.sender THEN Err(SignerMismatch, tokens)
    ELSE IF ~valid(txn) THEN Err(InvalidSignature, tokens)
    ELSE IF ~exists(tokens, txn.token_id) THEN Err(TokenDoesNotExist, tokens)
    ELSE IF compare(txn, get(tokens, txn.token_id)[1]) \notin {"Child", "Parent"}
         THEN Err(NotCurrentOwner, tokens)
    ELSE Done(insert(tokens, txn.token_id, txn),
              <<"Transfer", txn.token_id, txn.sender, txn.receiver>>)

transfer_accepts_sibling(tokens, origin, txn) ==
    LET who == ensure_signed(origin) IN
    IF who = None THEN Err(BadOrigin, tokens)
    ELSE IF who[1] # txn.sender THEN Err(SignerMismatch, tokens)
    ELSE IF ~valid(txn) THEN Err(InvalidSignature, tokens)
    ELSE IF ~exists(tokens, txn.token_id) THEN Err(TokenDoesNotExist, tokens)
    ELSE IF compare(txn, get(tokens, txn.token_id)[1])
               \notin {"Child", "EarlierSibling", "LaterSibling", "DoubleSpend"}
         THEN Err(NotCurrentOwner, tokens)
    ELSE Done(insert(tokens, txn.token_id, txn),
              <<"Transfer", txn.token_id, txn.sender, txn.receiver>>)

transfer(tokens, origin, txn) ==
    LET who == ensure_signed(origin) IN
    IF who = None THEN Err(BadOrigin, tokens)
    ELSE IF who[1] # txn.sender THEN Err(SignerMismatch, tokens)
    ELSE IF ~valid(txn) THEN Err(InvalidSignature, tokens)
    ELSE IF ~exists(tokens, txn.token_id) THEN Err(TokenDoesNotExist, tokens)
    ELSE IF compare(txn, get(tokens, txn.token_id)[1]) # "Child"
         THEN Err(NotCurrentOwner, tokens)
    ELSE Done(insert(tokens, txn.token_id, txn),
              <<"Transfer", txn.token_id, txn.sender, txn.receiver>>)

deposit_insert_first(tokens, origin, txn) ==
    LET who == ensure_signed(origin) IN
    IF who = None THEN Err(BadOrigin, tokens)
    ELSE IF who[1] # txn.sender THEN Err(SignerMismatch, tokens)
    ELSE IF ~valid(txn) THEN Err(InvalidSignature, tokens)
    ELSE IF exists(tokens, txn.token_id)
         THEN Err(TokenAlreadyExists, insert(tokens, txn.token_id, txn))
    ELSE Done(insert(tokens, txn.token_id, txn),
              <<"Deposit", txn.token_id, txn.receiver>>)

deposit_no_signer_check(tokens, origin, txn) ==
    LET who == ensure_signed(origin) IN
    IF who = None THEN Err(BadOrigin, tokens)
    ELSE IF ~valid(txn) THEN Err(InvalidSignature, tokens)
    ELSE IF exists(tokens, txn.token_id) THEN Err(TokenAlreadyExists, tokens)
    ELSE Done(insert(tokens, txn.token_id, txn),
              <<"Deposit", txn.token_id, txn.receiver>>)

deposit_valid_first(tokens, origin, txn) ==
    LET who == ensure_signed(origin) IN
    IF who = None THEN Err(BadOrigin, tokens)
    ELSE IF ~valid(txn) THEN Err(InvalidSignature, tokens)
    ELSE IF who[1] # txn.sender THEN Err(SignerMismatch, tokens)
    ELSE IF exists(tokens, txn.token_id) THEN Err(TokenAlreadyExists, tokens)
    ELSE Done(insert(tokens, txn.token_id, txn),
              <<"Deposit", txn.token_id, txn.receiver>>)

deposit_unverified(tokens, origin, txn) ==
    LET who == ensure_signed(origin) IN
    IF who = None THEN Err(BadOrigin, tokens)
    ELSE IF who[1] # txn.sender THEN Err(SignerMismatch, tokens)
    ELSE IF exists(tokens, txn.token_id) THEN Err(TokenAlreadyExists, tokens)
    ELSE Done(insert(tokens, txn.token_id, txn),
              <<"Deposit", txn.token_id, txn.receiver>>)

deposit(tokens, origin, txn) ==
    LET who == ensure_signed(origin) IN
    IF who = None THEN Err(BadOrigin, tokens)
    ELSE IF who[1] # txn.sender THEN Err(SignerMismatch, tokens)
    ELSE IF ~valid(txn) THEN Err(InvalidSignature, tokens)
    ELSE IF exists(tokens, txn.token_id) THEN Err(TokenAlreadyExists, tokens)
    ELSE Done(insert(tokens, txn.token_id, txn),
              <<"Deposit", txn.token_id, txn.receiver>>)

withdraw_keeps_entry(tokens, origin, token_id) ==
    LET who == ensure_signed(origin) IN
    IF who = None THEN Err(BadOrigin, tokens)
    ELSE IF ~exists(tokens, token_id) THEN Err(TokenDoesNotExist, tokens)
    ELSE LET txn == get(tokens, token_id)[1] IN
         IF who[1] # txn.sender THEN Err(WithdrawNotOwner, tokens)
         ELSE Done(tokens, <<"Withdraw", txn.token_id, txn.sender>>)

withdraw(tokens, origin, token_id) ==
    LET who == ensure_signed(origin) IN
    IF who = None THEN Err(BadOrigin, tokens)
    ELSE IF ~exists(tokens, token_id) THEN Err(TokenDoesNotExist, tokens)
    ELSE LET txn == get(tokens, token_id)[1] IN
         IF who[1] # txn.sender THEN Err(WithdrawNotOwner, tokens)
         ELSE Done(remove(tokens, token_id),
                   <<"Withdraw", txn.token_id, txn.sender>>)

----------------------------------------------------------------------------
(* Genesis: the build closure of decl_storage! *)

EmptyMap == [t \in TokenId |-> None]

RECURSIVE build_first_wins(_)
build_first_wins(initial_tokendb) ==
    IF initial_tokendb = <<>> THEN EmptyMap
    ELSE LET txn == Head(initial_tokendb)
         IN insert(build_first_wins(Tail(initial_tokendb)), txn.token_id, txn)

RECURSIVE build(_)
build(initial_tokendb) ==
    IF initial_tokendb = <<>> THEN EmptyMap
    ELSE LET n == Len(initial_tokendb)
             txn == initial_tokendb[n]
         IN insert(build(SubSeq(initial_tokendb, 1, n - 1)), txn.token_id, txn)

\* Seed lists of the genesis configuration: transactions made by create_txn.
SeedInputs == UNION { [1..n -> GenesisTxns] : n \in 0..MaxSeed }

----------------------------------------------------------------------------
(* Observation of the calls made *)

\* The last call that was accepted, the one whose event is the last event
\* deposited: which call, its origin, the token id it names, its Result, and
\* whether the accepted call before it was a withdraw of the same token id.
\* A rejected call returns its error to the caller and leaves no trace in
\* the state.
NoCall == [op |-> "genesis", origin |-> <<"None", 0>>, token_id |-> 0,
           result |-> Ok, after_withdraw |-> FALSE]

Observe(op, origin, token_id, result) ==
    IF result # Ok THEN last
    ELSE [op |-> op, origin |-> origin, token_id |-> token_id, result |-> result,
          after_withdraw |-> last.op = "withdraw" /\ last.token_id = token_id]

\* The calls made since an empty genesis, for as long as they are the calls
\* of the sequence deposit (self-signed, by A), transfer (A to another
\* account B, by A), withdraw (by B), all of one token id.
OffPath == [on |-> FALSE, calls |-> <<>>]

Follows(calls, c) ==
    CASE Len(calls) = 0 ->
           /\ c.op = "deposit"
           /\ valid(c.txn[1])
           /\ c.txn[1].sender = c.txn[1].receiver
           /\ c.origin = Signed(c.txn[1].sender)
      [] Len(calls) = 1 ->
           /\ c.op = "transfer"
           /\ valid(c.txn[1])
           /\ c.token_id = calls[1].token_id
           /\ c.txn[1].sender = calls[1].txn[1].sender
           /\ c.txn[1].receiver # calls[1].txn[1].sender
           /\ c.origin = Signed(calls[1].txn[1].sender)
      [] Len(calls) = 2 ->
           /\ c.op = "withdraw"
           /\ c.token_id = calls[1].token_id
           /\ c.origin = Signed(calls[2].txn[1].receiver)
      [] OTHER -> FALSE

Track(c) ==
    IF happy.on /\ Follows(happy.calls, c)
    THEN [on |-> TRUE, calls |-> Append(happy.calls, c)]
    ELSE OffPath

----------------------------------------------------------------------------
(* The state machine *)

Init ==
    /\ \E seed \in SeedInputs :
         /\ Tokens = build(seed)
         /\ happy = [on |-> seed = <<>>, calls |-> <<>>]
    /\ last = NoCall
    /\ self = None /\ other = None /\ rel = "none"
    /\ signing = None /\ pair = None /\ genesis = None

Transfer ==
    \E origin \in Origin, txn \in TxnInputs :
       LET r == transfer(Tokens, origin, txn) IN
       /\ Tokens' = r.tokens
       /\ last' = Observe("transfer", origin, txn.token_id, r.result)
       /\ happy' = Track([op |-> "transfer", origin |-> origin, txn |-> Some(txn),
                          token_id |-> txn.token_id, result |-> r.result])
       /\ UNCHANGED <<self, other, rel, signing, pair, genesis>>

Deposit ==
    \E origin \in Origin, txn \in TxnInputs :
       LET r == deposit(Tokens, origin, txn) IN
       /\ Tokens' = r.tokens
       /\ last' = Observe("deposit", origin, txn.token_id, r.result)
       /\ happy' = Track([op |-> "deposit", origin |-> origin, txn |-> Some(txn),
                          token_id |-> txn.token_id, result |-> r.result])
       /\ UNCHANGED <<self, other, rel, signing, pair, genesis>>

Withdraw ==
    \E origin \in Origin, token_id \in TokenId :
       LET r == withdraw(Tokens, origin, token_id) IN
       /\ Tokens' = r.tokens
       /\ last' = Observe("withdraw", origin, token_id, r.result)
       /\ happy' = Track([op |-> "withdraw", origin |-> origin, txn |-> None,
                          token_id |-> token_id, result |-> r.result])
       /\ UNCHANGED <<self, other, rel, signing, pair, genesis>>

Next == Transfer \/ Deposit \/ Withdraw

Spec == Init /\ [][Next]_vars

----------------------------------------------------------------------------
(* The classifier on its own: every pair of transactions, classified once *)

InitCompare ==
    /\ Tokens = EmptyMap /\ last = NoCall /\ happy = OffPath
    /\ self \in TxnInputs /\ other \in TxnInputs
    /\ rel = "none"
    /\ signing = None /\ pair = None /\ genesis = None

Compare ==
    /\ rel = "none"
    /\ rel' = compare(self, other)
    /\ UNCHANGED <<Tokens, last, happy, self, other, signing, pair, genesis>>

NextCompare == Compare

SpecCompare == InitCompare /\ [][NextCompare]_vars

----------------------------------------------------------------------------
(* Signing on its own: every unsigned transaction, sender and signature,   *)
(* given once to add_signature                                             *)

\* The signatures a caller can hold: made by any account over the hash of
\* any unsigned transaction.
SigInputs ==
    { sign_with(k, hash(u), n) :
         k \in AccountId, u \in UnsignedTransaction, n \in 0..MaxNonce }

InitSign ==
    /\ Tokens = EmptyMap /\ last = NoCall /\ happy = OffPath
    /\ self = None /\ other = None /\ rel = "none"
    /\ pair = None /\ genesis = None
    /\ \E u \in UnsignedTransaction, s \in AccountId, sg \in SigInputs :
          signing = [unsigned |-> u, sender |-> s, signature |-> sg,
                     done |-> FALSE, txn |-> None]

AddSignature ==
    /\ ~signing.done
    /\ signing' = [signing EXCEPT
                     !.done = TRUE,
                     !.txn = add_signature(signing.unsigned, signing.sender,
                                           signing.signature)]
    /\ UNCHANGED <<Tokens, last, happy, self, other, rel, pair, genesis>>

NextSign == AddSignature

SpecSign == InitSign /\ [][NextSign]_vars

----------------------------------------------------------------------------
(* Genesis on its own: every seed list, built once *)

GenesisInputs == UNION { [1..n -> GenesisTxns] : n \in 0..MaxGenesis }

InitGenesis ==
    /\ Tokens = EmptyMap /\ last = NoCall /\ happy = OffPath
    /\ self = None /\ other = None /\ rel = "none"
    /\ signing = None /\ pair = None
    /\ \E seed \in GenesisInputs :
          genesis = [initial_tokendb |-> seed, built |-> FALSE]

Build ==
    /\ ~genesis.built
    /\ Tokens' = build(genesis.initial_tokendb)
    /\ genesis' = [genesis EXCEPT !.built = TRUE]
    /\ UNCHANGED <<last, happy, self, other, rel, signing, pair>>

NextGenesis == Build

SpecGenesis == InitGenesis /\ [][NextGenesis]_vars

----------------------------------------------------------------------------
(* Two calls naming different token ids, dispatched one after the other   *)
(* from a map a genesis can build                                          *)

\* The calls naming token id t whose Result depends on the map: a deposit
\* or a transfer of a valid transaction (with any of its signatures)
\* submitted by its sender, and a withdraw from any origin. A deposit or
\* transfer that fails ensure_signed, the signer check or valid() is
\* rejected before the map is read.
Calls(t) ==
    { [op |-> o, origin |-> Signed(x.sender), txn |-> Some(x), token_id |-> t] :
         o \in {"deposit", "transfer"},
         x \in { v \in ValidTxns : v.token_id = t } }
    \cup
    { [op |-> "withdraw", origin |-> origin, txn |-> None, token_id |-> t] :
         origin \in Origin }

\* Call dispatch of decl_module!
dispatch(tokens, c) ==
    CASE c.op = "transfer" -> transfer(tokens, c.origin, c.txn[1])
      [] c.op = "deposit" -> deposit(tokens, c.origin, c.txn[1])
      [] c.op = "withdraw" -> withdraw(tokens, c.origin, c.token_id)

InitPair ==
    /\ \E seed \in GenesisInputs : Tokens = build(seed)
    /\ last = NoCall /\ happy = OffPath
    /\ self = None /\ other = None /\ rel = "none"
    /\ signing = None /\ genesis = None
    /\ pair = None

\* The first call: any call. `pair` keeps the call, the map before it and
\* its Result.
DispatchFirst ==
    /\ pair = None
    /\ \E t1 \in TokenId :
          \E c1 \in Calls(t1) :
             LET r == dispatch(Tokens, c1) IN
             /\ Tokens' = r.tokens
             /\ pair' = Some([step |-> 1, first |-> c1, second_token |-> t1,
                              start |-> Tokens, between |-> r.tokens,
                              results |-> <<r.result>>,
                              swapped |-> None])
    /\ UNCHANGED <<last, happy, self, other, rel, signing, genesis>>

\* What the two calls do from the map `start` when c2 is dispatched before
\* c1, computed with the functions of the calls: the Results <<of c1, of c2>>,
\* the map after c2 alone and the map after both.
Swapped(start, c1, c2) ==
    LET b2 == dispatch(start, c2)
        b1 == dispatch(b2.tokens, c1)
    IN [results |-> <<b1.result, b2.result>>,
        alone |-> b2.tokens,
        tokens |-> b1.tokens]

\* The second call: any call naming another token id than the first. `pair`
\* keeps its token id and Result, and for comparison what the other order
\* of the two calls gives from the same starting map.
DispatchSecond ==
    /\ pair # None
    /\ pair[1].step = 1
    /\ \E t2 \in TokenId \ {pair[1].first.token_id} :
          \E c2 \in Calls(t2) :
             LET r == dispatch(Tokens, c2) IN
             /\ Tokens' = r.tokens
             /\ pair' = Some([pair[1] EXCEPT
                                !.step = 2,
                                !.second_token = t2,
                                !.results = Append(@, r.result),
                                !.swapped = Some(Swapped(pair[1].start,
                                                         pair[1].first, c2))])
    /\ UNCHANGED <<last, happy, self, other, rel, signing, genesis>>

NextPair == DispatchFirst \/ DispatchSecond

SpecPair == InitPair /\ [][NextPair]_vars

----------------------------------------------------------------------------
(* Two transfers of one token id made and submitted by one account,        *)
(* dispatched one after the other from a map a genesis can build           *)

\* `pair` keeps the two transactions in the order they are submitted, the
\* map before the first call, the map between the two calls, the number of
\* calls dispatched and their Results.
InitConflict ==
    /\ \E seed \in UNION { [1..n -> ValidTxns] : n \in 0..MaxGenesis } :
          Tokens = build(seed)
    /\ last = NoCall /\ happy = OffPath
    /\ self = None /\ other = None /\ rel = "none"
    /\ signing = None /\ genesis = None
    /\ \E x1 \in ValidTxns, x2 \in ValidTxns :
          /\ x1 # x2
          /\ x1.sender = x2.sender
          /\ x1.token_id = x2.token_id
          /\ pair = Some([first |-> x1, second |-> x2, start |-> Tokens,
                          between |-> Tokens, step |-> 0, results |-> <<>>])

TransferFirst ==
    /\ pair[1].step = 0
    /\ LET txn == pair[1].first
           r == transfer(Tokens, Signed(txn.sender), txn)
       IN /\ Tokens' = r.tokens
          /\ pair' = Some([pair[1] EXCEPT !.step = 1,
                                          !.between = r.tokens,
                                          !.results = <<r.result>>])
    /\ UNCHANGED <<last, happy, self, other, rel, signing, genesis>>

TransferSecond ==
    /\ pair[1].step = 1
    /\ LET txn == pair[1].second
           r == transfer(Tokens, Signed(txn.sender), txn)
       IN /\ Tokens' = r.tokens
          /\ pair' = Some([pair[1] EXCEPT !.step = 2,
                                          !.results = Append(@, r.result)])
    /\ UNCHANGED <<last, happy, self, other, rel, signing, genesis>>

NextConflict == TransferFirst \/ TransferSecond

SpecConflict == InitConflict /\ [][NextConflict]_vars

----------------------------------------------------------------------------
(* Properties *)

\* The spec's error kind NotCurrentOwner covers the two messages of the code.
NotCurrentOwnerKind == {NotCurrentOwner, WithdrawNotOwner}

\* C1: in every reachable state, withdraw of a token that is Owned(cur) by
\* cur.receiver succeeds and leaves the token Absent.
C1_OwnerCanWithdraw ==
    \A t \in TokenId :
       exists(Tokens, t) =>
          LET cur == get(Tokens, t)[1]
              r == withdraw(Tokens, Signed(cur.receiver), t)
          IN r.result = Ok /\ r.tokens[t] = None

\* C2: in every reachable state where t is Owned(cur), a transfer or a
\* withdraw for t by an account other than cur.receiver is rejected with
\* NotCurrentOwner or SignerMismatch and leaves the map unchanged.
C2_OnlyOwnerChangesEntry ==
    \A t \in TokenId, who \in AccountId :
       (exists(Tokens, t) /\ who # get(Tokens, t)[1].receiver) =>
          /\ LET w == withdraw(Tokens, Signed(who), t)
             IN w.result \in NotCurrentOwnerKind \cup {SignerMismatch}
                /\ w.tokens = Tokens
          /\ \A txn \in TxnInputs :
                txn.token_id = t =>
                   LET r == transfer(Tokens, Signed(who), txn)
                   IN r.result \in NotCurrentOwnerKind \cup {SignerMismatch}
                      /\ r.tokens = Tokens

\* C3: from an empty map, the deposit of a self-signed transaction by A
\* succeeds and is the entry; the transfer from A to B signed and submitted
\* by A then succeeds and the entry has receiver B and sender A; the
\* withdraw by B then succeeds and the entry is None.
C3_HappyPath ==
    happy.on =>
       LET c == happy.calls
           n == Len(happy.calls)
       IN /\ (n >= 1) => (c[1].result = Ok)
          /\ (n = 1) => (Tokens[c[1].token_id] = c[1].txn)
          /\ (n >= 2) => (c[2].result = Ok)
          /\ (n = 2) => /\ Tokens[c[1].token_id] = c[2].txn
                        /\ Tokens[c[1].token_id][1].receiver = c[2].txn[1].receiver
                        /\ Tokens[c[1].token_id][1].sender = c[1].txn[1].sender
          /\ (n = 3) => /\ c[3].result = Ok
                        /\ Tokens[c[1].token_id] = None

\* C4: a valid transfer of an Owned(prev) token, signed and submitted by
\* prev.receiver, is accepted whatever its receiver is.
C4_OwnerTransferAccepted ==
    \A txn \in TxnInputs :
       ( /\ exists(Tokens, txn.token_id)
         /\ valid(txn)
         /\ txn.sender = get(Tokens, txn.token_id)[1].receiver ) =>
          LET r == transfer(Tokens, Signed(txn.sender), txn)
          IN r.result = Ok /\ r.tokens[txn.token_id] = Some(txn)

\* C5: a call that returns an error leaves the map as it was, for every
\* token id: in every reachable state, for every origin and argument.
C5_RejectionLeavesMap ==
    /\ \A origin \in Origin, txn \in TxnInputs :
          /\ LET r == transfer(Tokens, origin, txn)
             IN (r.result # Ok) => (r.tokens = Tokens)
          /\ LET r == deposit(Tokens, origin, txn)
             IN (r.result # Ok) => (r.tokens = Tokens)
    /\ \A origin \in Origin, token_id \in TokenId :
          LET r == withdraw(Tokens, origin, token_id)
          IN (r.result # Ok) => (r.tokens = Tokens)

\* After an accepted transfer of a token: its deposit is rejected, so is its
\* withdraw by the receiver, and both leave the entry written by the
\* transfer.
C5_Witness ==
    /\ last.op = "transfer"
    /\ exists(Tokens, last.token_id)
    /\ LET txn == get(Tokens, last.token_id)[1] IN
       /\ txn.receiver # txn.sender
       /\ deposit(Tokens, Signed(txn.sender), txn).result = TokenAlreadyExists
       /\ deposit(Tokens, Signed(txn.sender), txn).tokens = Tokens
       /\ withdraw(Tokens, Signed(txn.receiver), last.token_id).result
             = WithdrawNotOwner
       /\ withdraw(Tokens, Signed(txn.receiver), last.token_id).tokens = Tokens

\* C6: deposit succeeds exactly when the token id is Absent, txn.valid()
\* holds and the caller is txn.sender; on success the entry is Some(txn).
C6_DepositContract ==
    \A who \in AccountId, txn \in TxnInputs :
       LET r == deposit(Tokens, Signed(who), txn) IN
       /\ (r.result = Ok) <=>
             ( /\ ~exists(Tokens, txn.token_id)
               /\ valid(txn)
               /\ who = txn.sender )
       /\ (r.result = Ok) => (r.tokens[txn.token_id] = Some(txn))

C6_Witness ==
    /\ last.op = "deposit"
    /\ last.result = Ok
    /\ exists(Tokens, last.token_id)
    /\ last.origin = Signed(get(Tokens, last.token_id)[1].sender)

\* C7: transfer succeeds exactly when the token id is Owned(prev),
\* txn.valid() holds, the caller is txn.sender and compare(txn, prev) is
\* Child; on success the entry is Some(txn), replacing prev.
C7_TransferContract ==
    \A who \in AccountId, txn \in TxnInputs :
       LET r == transfer(Tokens, Signed(who), txn) IN
       /\ (r.result = Ok) <=>
             ( /\ exists(Tokens, txn.token_id)
               /\ valid(txn)
               /\ who = txn.sender
               /\ compare(txn, get(Tokens, txn.token_id)[1]) = "Child" )
       /\ (r.result = Ok) => (r.tokens[txn.token_id] = Some(txn))

C7_Witness ==
    /\ last.op = "transfer"
    /\ last.result = Ok
    /\ exists(Tokens, last.token_id)
    /\ last.origin = Signed(get(Tokens, last.token_id)[1].sender)
    /\ get(Tokens, last.token_id)[1].receiver # get(Tokens, last.token_id)[1].sender

\* C8 (as stated): a transfer or a withdraw naming an Absent token id is
\* rejected with TokenDoesNotExist, and a deposit naming an Owned token id
\* with TokenAlreadyExists.
C8_Original ==
    /\ \A who \in AccountId, t \in TokenId :
          ~exists(Tokens, t) =>
             withdraw(Tokens, Signed(who), t).result = TokenDoesNotExist
    /\ \A who \in AccountId, txn \in TxnInputs :
          /\ ~exists(Tokens, txn.token_id) =>
                transfer(Tokens, Signed(who), txn).result = TokenDoesNotExist
          /\ exists(Tokens, txn.token_id) =>
                deposit(Tokens, Signed(who), txn).result = TokenAlreadyExists

\* C8 (amended): a withdraw naming an Absent token id is rejected with
\* TokenDoesNotExist; a transfer naming an Absent token id and a deposit
\* naming an Owned one are always rejected, with TokenDoesNotExist /
\* TokenAlreadyExists when the caller is txn.sender and txn.valid() holds,
\* with SignerMismatch when the caller is not txn.sender, and with
\* InvalidSignature when the caller is txn.sender and txn.valid() fails.
C8_ExistenceErrors ==
    /\ \A who \in AccountId, t \in TokenId :
          ~exists(Tokens, t) =>
             withdraw(Tokens, Signed(who), t).result = TokenDoesNotExist
    /\ \A who \in AccountId, txn \in TxnInputs :
          LET expected(existence) ==
                 IF who # txn.sender THEN SignerMismatch
                 ELSE IF ~valid(txn) THEN InvalidSignature
                 ELSE existence
          IN /\ ~exists(Tokens, txn.token_id) =>
                   transfer(Tokens, Signed(who), txn).result
                      = expected(TokenDoesNotExist)
             /\ exists(Tokens, txn.token_id) =>
                   deposit(Tokens, Signed(who), txn).result
                      = expected(TokenAlreadyExists)

\* After an accepted withdraw: the token id is Absent and a transfer of it
\* is rejected, by a valid transaction from its sender with
\* TokenDoesNotExist and from another caller with SignerMismatch.
C8_Witness ==
    /\ last.op = "withdraw"
    /\ ~exists(Tokens, last.token_id)
    /\ \E txn \in ValidTxns, who \in AccountId :
          /\ txn.token_id = last.token_id
          /\ who # txn.sender
          /\ transfer(Tokens, Signed(txn.sender), txn).result = TokenDoesNotExist
          /\ transfer(Tokens, Signed(who), txn).result = SignerMismatch

\* C9: right after a successful withdraw of token t, t is Absent and the
\* deposit of any valid transaction for t submitted by its sender succeeds
\* and becomes the entry, whatever calls came before.
C9_Redeposit ==
    (last.op = "withdraw" /\ last.result = Ok) =>
       /\ ~exists(Tokens, last.token_id)
       /\ \A txn \in ValidTxns :
             txn.token_id = last.token_id =>
                LET r == deposit(Tokens, Signed(txn.sender), txn)
                IN r.result = Ok /\ r.tokens[txn.token_id] = Some(txn)

C9_Witness ==
    /\ last.op = "deposit"
    /\ last.result = Ok
    /\ last.after_withdraw
    /\ exists(Tokens, last.token_id)

\* C10: the classifier always returns one of the seven relationships, the
\* one the ordered algorithm gives: Unrelated when the token ids differ;
\* otherwise Parent if self.receiver = other.sender, else Child if
\* self.sender = other.receiver, else for equal senders EarlierSibling /
\* LaterSibling by prev_blk_num <, >, else DoubleSpend if the receivers
\* differ, else Same; and Unrelated otherwise.
C10_Classifier ==
    (rel # "none") =>
       LET parent == self.receiver = other.sender
           child == self.sender = other.receiver
           sibling == self.sender = other.sender
       IN /\ rel \in TxnCmp
          /\ (self.token_id # other.token_id) => (rel = "Unrelated")
          /\ (self.token_id = other.token_id) =>
                /\ parent => (rel = "Parent")
                /\ (~parent /\ child) => (rel = "Child")
                /\ (~parent /\ ~child /\ sibling) =>
                      /\ (self.prev_blk_num < other.prev_blk_num)
                            => (rel = "EarlierSibling")
                      /\ (self.prev_blk_num > other.prev_blk_num)
                            => (rel = "LaterSibling")
                      /\ ( /\ self.prev_blk_num = other.prev_blk_num
                           /\ self.receiver # other.receiver )
                            => (rel = "DoubleSpend")
                      /\ ( /\ self.prev_blk_num = other.prev_blk_num
                           /\ self.receiver = other.receiver )
                            => (rel = "Same")
                /\ (~parent /\ ~child /\ ~sibling) => (rel = "Unrelated")

C10_Witness ==
    /\ rel = "Parent"
    /\ self.token_id = other.token_id
    /\ self.receiver = other.sender
    /\ self.sender = other.receiver
    /\ self.sender # self.receiver

\* C11: for transactions a, b with equal token_id, compare(a, b) is Parent
\* if and only if compare(b, a) is Child.
C11_ParentIffChild ==
    (rel # "none" /\ self.token_id = other.token_id) =>
       ((rel = "Parent") <=> (compare(other, self) = "Child"))

\* C12: for every transaction a, compare(a, a) is Same, self-signed
\* transactions (sender = receiver) included.
C12_SelfIsSame ==
    (rel # "none" /\ self = other) => (rel = "Same")

\* C13: two transactions for the same token id with the same sender, the
\* same prev_blk_num and different receivers classify as DoubleSpend, in
\* both argument orders.
C13_DoubleSpend ==
    ( /\ rel # "none"
      /\ self.token_id = other.token_id
      /\ self.sender = other.sender
      /\ self.prev_blk_num = other.prev_blk_num
      /\ self.receiver # other.receiver ) =>
       (rel = "DoubleSpend" /\ compare(other, self) = "DoubleSpend")

\* C14: when two transactions for the same token form a 2-cycle
\* (self.receiver = other.sender and self.sender = other.receiver), compare
\* returns Parent in both argument orders.
C14_CycleIsParent ==
    ( /\ rel # "none"
      /\ self.token_id = other.token_id
      /\ self.receiver = other.sender
      /\ self.sender = other.receiver ) =>
       (rel = "Parent" /\ compare(other, self) = "Parent")

C14_Witness ==
    /\ rel = "Parent"
    /\ compare(other, self) = "Parent"
    /\ self.token_id = other.token_id
    /\ self.receiver = other.sender
    /\ self.sender = other.receiver
    /\ self.sender # self.receiver
    /\ self.prev_blk_num # other.prev_blk_num

\* C15: add_signature returns a Transaction exactly when the signature is
\* the one made by the sender over the hash of the unsigned fields, and
\* otherwise no Transaction; a Transaction it returns carries the unsigned
\* fields, the sender and the signature, and satisfies valid().
C15_AddSignature ==
    signing.done =>
       /\ (signing.txn # None) <=>
             ( /\ signing.signature.signer = signing.sender
               /\ signing.signature.msg = hash(signing.unsigned) )
       /\ (signing.txn # None) =>
             /\ signing.txn[1].receiver = signing.unsigned.receiver
             /\ signing.txn[1].token_id = signing.unsigned.token_id
             /\ signing.txn[1].prev_blk_num = signing.unsigned.prev_blk_num
             /\ signing.txn[1].sender = signing.sender
             /\ signing.txn[1].signature = signing.signature
             /\ leaf_hash(signing.txn[1]) = hash(signing.unsigned)
             /\ valid(signing.txn[1])

C15_Witness ==
    /\ signing.done
    /\ signing.txn # None
    /\ valid(signing.txn[1])
    /\ signing.txn[1].sender # signing.txn[1].receiver

\* C16 (as stated): for a Transaction built by add_signature, changing one
\* of signature, sender, receiver, token_id, prev_blk_num to a different
\* value, the other fields kept, makes valid() false.
C16_Original ==
    (signing.done /\ signing.txn # None) =>
       LET txn == signing.txn[1] IN
       /\ valid(txn)
       /\ \A sg \in SigInputs \ {txn.signature} :
             ~valid([txn EXCEPT !.signature = sg])
       /\ \A s \in AccountId \ {txn.sender} :
             ~valid([txn EXCEPT !.sender = s])
       /\ \A r \in AccountId \ {txn.receiver} :
             ~valid([txn EXCEPT !.receiver = r])
       /\ \A t \in TokenId \ {txn.token_id} :
             ~valid([txn EXCEPT !.token_id = t])
       /\ \A b \in BlkNum \ {txn.prev_blk_num} :
             ~valid([txn EXCEPT !.prev_blk_num = b])

\* C16 (amended): for a Transaction built by add_signature, changing one of
\* sender, receiver, token_id, prev_blk_num to a different value, the other
\* fields kept, makes valid() false; changing the signature makes valid()
\* false unless the new value is another signature made by the sender over
\* the same receiver, token_id and prev_blk_num.
C16_TamperInvalid ==
    (signing.done /\ signing.txn # None) =>
       LET txn == signing.txn[1] IN
       /\ valid(txn)
       /\ \A sg \in SigInputs \ {txn.signature} :
             valid([txn EXCEPT !.signature = sg]) <=>
                ( /\ sg.signer = signing.sender
                  /\ sg.msg = hash(signing.unsigned) )
       /\ \A s \in AccountId \ {txn.sender} :
             ~valid([txn EXCEPT !.sender = s])
       /\ \A r \in AccountId \ {txn.receiver} :
             ~valid([txn EXCEPT !.receiver = r])
       /\ \A t \in TokenId \ {txn.token_id} :
             ~valid([txn EXCEPT !.token_id = t])
       /\ \A b \in BlkNum \ {txn.prev_blk_num} :
             ~valid([txn EXCEPT !.prev_blk_num = b])

C16_Witness ==
    /\ signing.done
    /\ signing.txn # None
    /\ \E s \in AccountId \ {signing.txn[1].sender} :
          ~valid([signing.txn[1] EXCEPT !.sender = s])
    /\ \E b \in BlkNum \ {signing.txn[1].prev_blk_num} :
          ~valid([signing.txn[1] EXCEPT !.prev_blk_num = b])

\* C17: whenever a step changes the entry of token t from Some(prev) to
\* Some(txn), then txn.token_id = prev.token_id = t, txn.sender =
\* prev.receiver, and the caller of the step is prev.receiver.
C17_TransferExtendsChain ==
    [][ \A t \in TokenId :
          (exists(Tokens, t) /\ exists(Tokens', t) /\ Tokens'[t] # Tokens[t]) =>
             /\ Tokens'[t][1].token_id = t
             /\ Tokens[t][1].token_id = t
             /\ Tokens'[t][1].sender = Tokens[t][1].receiver
             /\ last'.origin = Signed(Tokens[t][1].receiver) ]_vars

C17_Witness ==
    /\ last.op = "transfer"
    /\ last.result = Ok
    /\ ~last.after_withdraw
    /\ exists(Tokens, last.token_id)
    /\ get(Tokens, last.token_id)[1].token_id = last.token_id
    /\ last.origin = Signed(get(Tokens, last.token_id)[1].sender)

\* C19: the Result of a call is decided by the first failing check in a
\* fixed order: for deposit and transfer the caller is not txn.sender
\* (SignerMismatch), then txn.valid() fails (InvalidSignature), then the
\* token-existence check (TokenAlreadyExists for deposit, TokenDoesNotExist
\* for transfer), then for transfer compare(txn, prev) is not Child
\* (NotCurrentOwner); for withdraw TokenDoesNotExist, then NotCurrentOwner.
\* A call passing every check returns Ok.
C19_ErrorOrder ==
    /\ \A who \in AccountId, txn \in TxnInputs :
          /\ deposit(Tokens, Signed(who), txn).result =
                IF who # txn.sender THEN SignerMismatch
                ELSE IF ~valid(txn) THEN InvalidSignature
                ELSE IF exists(Tokens, txn.token_id) THEN TokenAlreadyExists
                ELSE Ok
          /\ transfer(Tokens, Signed(who), txn).result =
                IF who # txn.sender THEN SignerMismatch
                ELSE IF ~valid(txn) THEN InvalidSignature
                ELSE IF ~exists(Tokens, txn.token_id) THEN TokenDoesNotExist
                ELSE IF compare(txn, get(Tokens, txn.token_id)[1]) # "Child"
                     THEN NotCurrentOwner
                ELSE Ok
    /\ \A who \in AccountId, t \in TokenId :
          LET r == withdraw(Tokens, Signed(who), t).result IN
          IF ~exists(Tokens, t) THEN r = TokenDoesNotExist
          ELSE r \in {WithdrawNotOwner, Ok}

\* After an accepted deposit: a forged transaction for the token id, given
\* to deposit, fails the signer check from another caller and the signature
\* check from its sender, before the existence check.
C19_Witness ==
    /\ last.op = "deposit"
    /\ exists(Tokens, last.token_id)
    /\ \E txn \in TxnInputs \ ValidTxns, who \in AccountId :
          /\ txn.token_id = last.token_id
          /\ who # txn.sender
          /\ deposit(Tokens, Signed(who), txn).result = SignerMismatch
          /\ deposit(Tokens, Signed(txn.sender), txn).result = InvalidSignature
          /\ deposit(Tokens, Signed(txn.sender),
                     get(Tokens, last.token_id)[1]).result = TokenAlreadyExists

\* C18: a call naming token id t changes no entry other than t's, and two
\* calls naming different token ids give, in either order, the same Result
\* for each call and the same final map.
C18_Independent ==
    (pair # None) =>
       LET p == pair[1] IN
       /\ \A t \in TokenId \ {p.first.token_id} : p.between[t] = p.start[t]
       /\ (p.step = 2) =>
             /\ \A t \in TokenId \ {p.second_token} : Tokens[t] = p.between[t]
             /\ \A t \in TokenId \ {p.second_token} :
                   p.swapped[1].alone[t] = p.start[t]
             /\ p.results = p.swapped[1].results
             /\ Tokens = p.swapped[1].tokens

C18_Witness ==
    /\ pair # None
    /\ pair[1].step = 2
    /\ pair[1].second_token # pair[1].first.token_id
    /\ pair[1].results = <<Ok, Ok>>
    /\ pair[1].swapped[1].results = <<Ok, Ok>>
    /\ pair[1].between # pair[1].start
    /\ Tokens # pair[1].between
    /\ Tokens = pair[1].swapped[1].tokens

\* C20: genesis stores each transaction of the seed list under its own
\* token_id; for a token id that several transactions of the list name, the
\* entry is the last of them in the list; a token id none names is Absent.
C20_GenesisLastWins ==
    genesis.built =>
       \A t \in TokenId :
          LET seed == genesis.initial_tokendb
              idx == { i \in 1..Len(seed) : seed[i].token_id = t }
          IN IF idx = {} THEN Tokens[t] = None
             ELSE Tokens[t] = Some(seed[CHOOSE i \in idx : \A j \in idx : j <= i])

C20_Witness ==
    /\ genesis.built
    /\ Len(genesis.initial_tokendb) = 2
    /\ genesis.initial_tokendb[1].token_id = genesis.initial_tokendb[2].token_id
    /\ genesis.initial_tokendb[1] # genesis.initial_tokendb[2]
    /\ Tokens[genesis.initial_tokendb[2].token_id] = Some(genesis.initial_tokendb[2])

\* C23: swapping the arguments of compare turns EarlierSibling into
\* LaterSibling and back, and keeps DoubleSpend, Same and Unrelated: for all
\* a, b, compare(a, b) is EarlierSibling if and only if compare(b, a) is
\* LaterSibling, and compare(a, b) is DoubleSpend (Same, Unrelated) if and
\* only if compare(b, a) is.
C23_SwapConsistent ==
    (rel # "none") =>
       LET back == compare(other, self) IN
       /\ (rel = "EarlierSibling") <=> (back = "LaterSibling")
       /\ (rel = "LaterSibling") <=> (back = "EarlierSibling")
       /\ \A k \in {"DoubleSpend", "Same", "Unrelated"} : (rel = k) <=> (back = k)

C23_Witness ==
    /\ rel = "EarlierSibling"
    /\ compare(other, self) = "LaterSibling"
    /\ self.token_id = other.token_id
    /\ self.sender = other.sender
    /\ self.prev_blk_num < other.prev_blk_num
    /\ self.receiver # other.receiver

\* C22: from an empty map or a genesis seed of valid transactions, after any
\* sequence of deposit, transfer and withdraw calls, every transaction
\* stored in the map satisfies valid() and is stored under its own token_id.
C22_StoredValidUnderOwnKey ==
    \A t \in TokenId :
       exists(Tokens, t) =>
          /\ valid(get(Tokens, t)[1])
          /\ get(Tokens, t)[1].token_id = t

\* A token deposited again after its withdrawal, while every token id of the
\* map holds a transaction.
C22_Witness ==
    /\ last.op = "deposit"
    /\ last.result = Ok
    /\ last.after_withdraw
    /\ \A t \in TokenId : exists(Tokens, t)
    /\ \A t \in TokenId : valid(get(Tokens, t)[1]) /\ get(Tokens, t)[1].token_id = t

\* Both transfers of `pair` would be accepted from the map before the first
\* call, and neither has its sender as receiver.
EitherAcceptable ==
    LET p == pair[1] IN
    /\ transfer(p.start, Signed(p.first.sender), p.first).result = Ok
    /\ transfer(p.start, Signed(p.second.sender), p.second).result = Ok
    /\ p.first.receiver # p.first.sender
    /\ p.second.receiver # p.second.sender

\* C21: when the owner A could have either of two transfers of token t
\* accepted (both signed and submitted by A, to receivers other than A),
\* then whichever is dispatched first is accepted, the other one is then
\* rejected with NotCurrentOwner, and the map keeps the first transfer.
C21_ConflictingTransfers ==
    (pair[1].step = 2 /\ EitherAcceptable) =>
       LET p == pair[1] IN
       /\ p.results = <<Ok, NotCurrentOwner>>
       /\ Tokens = p.between
       /\ get(Tokens, p.first.token_id) = Some(p.first)

C21_Witness ==
    /\ pair[1].step = 2
    /\ EitherAcceptable
    /\ pair[1].first.receiver # pair[1].second.receiver
    /\ pair[1].results = <<Ok, NotCurrentOwner>>
    /\ get(pair[1].start, pair[1].first.token_id) # Some(pair[1].first)
    /\ get(Tokens, pair[1].first.token_id) = Some(pair[1].first)

====
